---- MODULE Spec2Model ----
(***************************************************************************)
(* SSTV PD120 beacon (sstv_pd120.h): the timer-driven scan-segment         *)
(* encoder, the line-pair sequencer, the calibration header and the        *)
(* colour / frequency conversions.                                         *)
(*                                                                         *)
(* Two lines of control share the scan-cursor globals: the main line of    *)
(* control (takeAndTransmitImageViaSSTV -> transmitCalibrationHeader ->    *)
(* transmitPD120Image_HW -> transmitLine*_HW), modelled statement by       *)
(* statement inside the transmitLine*_HW functions, and the periodic       *)
(* esp_timer callback pixelTimerCallback, modelled as one atomic action.   *)
(*                                                                         *)
(* Time is the microsecond clock, advanced event by event: a busy wait or  *)
(* delayMicroseconds ends exactly when its duration has elapsed, the       *)
(* periodic timer fires exactly every pixelDuration, and all other         *)
(* statements take no time.                                                *)
(*                                                                         *)
(* Float values (Y, R-Y, B-Y) are fixed-point integers in units of 1/Unit  *)
(* (exact real arithmetic; the coefficients have three decimals, so every  *)
(* product is exact).  The cast (uint32_t) is truncation.  On the pixel    *)
(* values of Palette the result is equal, Hz for Hz, to the single         *)
(* precision computation of the source.                                    *)
(*                                                                         *)
(* The raster is scaled: imageWidth and imageHeight are MaxWidth and       *)
(* 2 * MaxPairs instead of 640 and 496.                                    *)
(***************************************************************************)
EXTENDS Integers, Sequences, FiniteSets, TLC

\* ------------------------------------------------------------------ bounds
MaxWidth == 3
MaxPairs == 2

\* --------------------------------------------------------------- constants
syncPulseDuration == 20000
porchDuration == 2080
scanDuration == 121600
imageWidth == MaxWidth
imageHeight == 2 * MaxPairs
pixelDuration == scanDuration \div imageWidth

\* one unit of a float value: Y, R-Y and B-Y are integers counting 1/Unit
Unit == 1000000

\* packed RGB565 values the surface is filled with: black, white, red,
\* green, blue (the SMPTE bar colours of draw64ColorBar) and the
\* background of generateBaseImage
Palette == << 0, 65535, 63488, 2016, 31, 10734 >>

PaletteSet == { Palette[i] : i \in 1..Len(Palette) }

VARIABLES
    canvas,          \* canvas->getBuffer(): index y*imageWidth+x -> packed pixel
    pixelCounter,    \* volatile int pixelCounter
    rowFinished,     \* volatile bool rowFinished
    currentSegment,  \* volatile SegmentType currentSegment
    currentRow,      \* volatile int currentRow
    currentRowOdd,   \* volatile int currentRowOdd
    currentRowEven,  \* volatile int currentRowEven
    timerRunning,    \* pixelTimerHandle is armed (periodic)
    nextFire,        \* time of the next firing of pixelTimerHandle
    pc,              \* position of the main line of control
    hdr,             \* index of the next tonePulse of transmitCalibrationHeader
    pair,            \* loop variable of transmitPD120Image_HW
    call,            \* which of the four transmitLine*_HW calls of the loop body
    start,           \* local variable start of transmitPD120Image_HW
    now,             \* the microsecond clock, micros()
    log,             \* what was done to the tone peripheral and the timer, in order
    probe,           \* a call of a pure function: name, arguments, results
    ptt,             \* the PTT output pin
    fb,              \* camera_fb_t *fb of takeAndTransmitImageViaSSTV
    rgb565_buffer,   \* uint8_t *rgb565_buffer of takeAndTransmitImageViaSSTV
    targetBuffer     \* uint16_t *targetBuffer = canvas->getBuffer()

vars == << canvas, pixelCounter, rowFinished, currentSegment, currentRow,
           currentRowOdd, currentRowEven, timerRunning, nextFire, pc, hdr,
           pair, call, start, now, log, probe, ptt, fb, rgb565_buffer,
           targetBuffer >>

\* the state of takeAndTransmitImageViaSSTV outside the transmission
hostVars == << ptt, fb, rgb565_buffer, targetBuffer >>

scanVars == << pixelCounter, rowFinished, currentSegment, currentRow,
               currentRowOdd, currentRowEven >>

\* ------------------------------------------------------------- conversions

\* (uint32_t) of a quotient n/d: truncation toward zero
Trunc(n, d) == IF n >= 0 THEN n \div d ELSE -((-n) \div d)

\* round-to-nearest of a quotient n/d, n >= 0, d even
RoundDiv(n, d) == (n + d \div 2) \div d

\* canvas->getBuffer()[idx]; a read outside the buffer yields any value
BufferAt(idx, junk) == IF idx \in DOMAIN canvas THEN canvas[idx] ELSE junk

\* the green field taken for five bits wide
getCanvasPixel_green5(x, y, junk) ==
    LET pixel == BufferAt(y * imageWidth + x, junk)
        r5 == (pixel \div 2048) % 32
        g6 == (pixel \div 32) % 32
        b5 == pixel % 32
    IN  [R |-> (r5 * 255) \div 31, G |-> (g6 * 255) \div 31, B |-> (b5 * 255) \div 31]

getCanvasPixel(x, y, junk) ==
    LET pixel == BufferAt(y * imageWidth + x, junk)
        r5 == (pixel \div 2048) % 32
        g6 == (pixel \div 32) % 64
        b5 == pixel % 32
    IN  [R |-> (r5 * 255) \div 31, G |-> (g6 * 255) \div 63, B |-> (b5 * 255) \div 31]

\* the red weight 0.399 instead of 0.299
convertToSSTV_weights(p) ==
    LET Ymilli == 399 * p.R + 587 * p.G + 114 * p.B
    IN  [Y   |-> Ymilli * (Unit \div 1000),
         RmY |-> (713 * (p.R * 1000 - Ymilli)) * (Unit \div 1000000),
         BmY |-> (564 * (p.B * 1000 - Ymilli)) * (Unit \div 1000000)]

convertToSSTV(p) ==
    LET Ymilli == 299 * p.R + 587 * p.G + 114 * p.B
    IN  [Y   |-> Ymilli * (Unit \div 1000),
         RmY |-> (713 * (p.R * 1000 - Ymilli)) * (Unit \div 1000000),
         BmY |-> (564 * (p.B * 1000 - Ymilli)) * (Unit \div 1000000)]

mapYToFrequency_rounding(Y) == 1500 + RoundDiv(Y * 8, 255 * (Unit \div 100))

mapYToFrequency_256(Y) == 1500 + Trunc(Y * 8, 256 * (Unit \div 100))

\* 1500 + (uint32_t)((Y / 255.0) * 800)
mapYToFrequency(Y) == 1500 + Trunc(Y * 8, 255 * (Unit \div 100))

mapDiffToFrequency_rounding(diff) ==
    1500 + RoundDiv((diff + 128 * Unit) * 8, 255 * (Unit \div 100))

mapDiffToFrequency_256(diff) == 1500 + Trunc((diff + 128 * Unit) * 8, 256 * (Unit \div 100))

\* 1500 + (uint32_t)(((diff + 128.0) / 255.0) * 800)
mapDiffToFrequency(diff) == 1500 + Trunc((diff + 128 * Unit) * 8, 255 * (Unit \div 100))

\* (a + b) / 2.0
Average(a, b) == (a + b) \div 2

\* ------------------------------------------------------------ the event log

Ev(ev, freq, seg, x, r1, r2) ==
    [ev |-> ev, freq |-> freq, at |-> now, seg |-> seg, x |-> x, r1 |-> r1, r2 |-> r2]

\* ledcWriteTone(frequency), called from `who`
ledcWriteTone(who, frequency, seg, x, r1, r2) == Ev(who, frequency, seg, x, r1, r2)

ToneEvents == {"header", "sync", "porch", "tick"}

\* -------------------------------------------------------------------- Init

\* the surfaces: pixel (x, y) holds Palette[(a*x + b*y + c) mod Len(Palette)].
\* A callback samples one pixel or the two pixels (x, 2k), (x, 2k+1); over
\* all b and c every pair of Palette values occurs as such a vertical pair.
Surface(a, b, c) ==
    [idx \in 0..(imageWidth * imageHeight - 1) |->
        Palette[((a * (idx % imageWidth) + b * (idx \div imageWidth) + c) % Len(Palette)) + 1]]

NoProbe == [fn |-> "none", a |-> 0, b |-> 0, fa |-> 0, fb |-> 0]

\* the globals and the locals of the transmission before it starts
InitTransmission ==
    /\ pixelCounter = 0
    /\ rowFinished = FALSE
    /\ currentSegment = "SEG_Y"
    /\ currentRow = 0
    /\ currentRowOdd = 0
    /\ currentRowEven = 0
    /\ timerRunning = FALSE
    /\ nextFire = 0
    /\ hdr = 1
    /\ pair = 0
    /\ call = 1
    /\ start = 0
    /\ now = 0
    /\ log = << >>

\* at the call of transmitCalibrationHeader
InitGlobals ==
    /\ InitTransmission
    /\ pc = "header"

\* takeAndTransmitImageViaSSTV at line 684, after a capture that succeeded:
\* PTT keyed, the camera frame returned, the temporary buffer freed
InitHost ==
    /\ ptt = "HIGH"
    /\ fb = "returned"
    /\ rgb565_buffer = "freed"
    /\ targetBuffer = "valid"

Init ==
    /\ \E a \in 0..1, b \in 0..(Len(Palette) - 1), c \in 0..(Len(Palette) - 1) :
          canvas = Surface(a, b, c)
    /\ InitGlobals
    /\ InitHost
    /\ probe = NoProbe

\* ------------------------------------------------- the calibration header

\* transmitCalibrationHeader: the tonePulse calls, <<frequency, durationMicros>>
transmitCalibrationHeader_swapped ==
    << <<1900, 300000>>, <<1200, 10000>>, <<1900, 300000>>, <<1200, 30000>>,
       <<1100, 30000>>, <<1100, 30000>>, <<1100, 30000>>, <<1100, 30000>>,
       <<1100, 30000>>, <<1100, 30000>>, <<1300, 30000>>, <<1300, 30000>>,
       <<1200, 30000>> >>

transmitCalibrationHeader ==
    << <<1900, 300000>>, <<1200, 10000>>, <<1900, 300000>>, <<1200, 30000>>,
       <<1100, 30000>>, <<1100, 30000>>, <<1100, 30000>>, <<1100, 30000>>,
       <<1100, 30000>>, <<1300, 30000>>, <<1100, 30000>>, <<1300, 30000>>,
       <<1200, 30000>> >>

\* a wait of the main line until time t: a timer firing due earlier comes first
TimerQuietUntil(t) == timerRunning => nextFire >= t

\* tonePulse(frequency, durationMicros): ledcWriteTone, then delayMicroseconds
tonePulse ==
    /\ pc = "header"
    /\ hdr <= Len(transmitCalibrationHeader)
    /\ LET frequency == transmitCalibrationHeader[hdr][1]
           durationMicros == transmitCalibrationHeader[hdr][2]
       IN  /\ TimerQuietUntil(now + durationMicros)
           /\ log' = Append(log, ledcWriteTone("header", frequency, "-", hdr, -1, -1))
           /\ now' = now + durationMicros
    /\ hdr' = hdr + 1
    /\ pc' = IF hdr = Len(transmitCalibrationHeader) THEN "loop" ELSE "header"
    /\ UNCHANGED << hostVars, canvas, scanVars, timerRunning, nextFire, pair, call, start, probe >>

\* ------------------------------------------------- transmitPD120Image_HW

\* one pair short
numPairs_short == imageHeight \div 2 - 1

numPairs == imageHeight \div 2

\* the four calls of the loop body, lines 561-567
PairCalls_swapped(k) ==
    LET oddLine == k * 2
        evenLine == oddLine + 1
    IN  << [seg |-> "SEG_Y",  r1 |-> oddLine,  r2 |-> -1],
           [seg |-> "SEG_BY", r1 |-> oddLine,  r2 |-> evenLine],
           [seg |-> "SEG_RY", r1 |-> oddLine,  r2 |-> evenLine],
           [seg |-> "SEG_Y",  r1 |-> evenLine, r2 |-> -1] >>

PairCalls_rows(k) ==
    LET oddLine == k * 2 + 1
        evenLine == oddLine + 1
    IN  << [seg |-> "SEG_Y",  r1 |-> oddLine,  r2 |-> -1],
           [seg |-> "SEG_RY", r1 |-> oddLine,  r2 |-> evenLine],
           [seg |-> "SEG_BY", r1 |-> oddLine,  r2 |-> evenLine],
           [seg |-> "SEG_Y",  r1 |-> evenLine, r2 |-> -1] >>

PairCalls(k) ==
    LET oddLine == k * 2
        evenLine == oddLine + 1
    IN  << [seg |-> "SEG_Y",  r1 |-> oddLine,  r2 |-> -1],
           [seg |-> "SEG_RY", r1 |-> oddLine,  r2 |-> evenLine],
           [seg |-> "SEG_BY", r1 |-> oddLine,  r2 |-> evenLine],
           [seg |-> "SEG_Y",  r1 |-> evenLine, r2 |-> -1] >>

ThisCall == PairCalls(pair)[call]

\* for (int pair = 0; pair < numPairs; pair++)
LoopTest ==
    /\ pc = "loop"
    /\ pc' = IF pair < numPairs THEN "sync" ELSE "stop"
    /\ UNCHANGED << hostVars, canvas, scanVars, timerRunning, nextFire, hdr, pair, call,
                    start, now, log, probe >>

\* ledcWriteTone(1200); uint32_t start = micros();
SyncPulse ==
    /\ pc = "sync"
    /\ log' = Append(log, ledcWriteTone("sync", 1200, "-", -1, -1, -1))
    /\ start' = now
    /\ pc' = "syncWait"
    /\ UNCHANGED << hostVars, canvas, scanVars, timerRunning, nextFire, hdr, pair, call, now, probe >>

\* while ((micros() - start) < syncPulseDuration) { }
SyncWait ==
    /\ pc = "syncWait"
    /\ TimerQuietUntil(start + syncPulseDuration)
    /\ now' = IF now - start < syncPulseDuration THEN start + syncPulseDuration ELSE now
    /\ pc' = "porch"
    /\ UNCHANGED << hostVars, canvas, scanVars, timerRunning, nextFire, hdr, pair, call,
                    start, log, probe >>

\* ledcWriteTone(1500); start = micros();
PorchPulse ==
    /\ pc = "porch"
    /\ log' = Append(log, ledcWriteTone("porch", 1500, "-", -1, -1, -1))
    /\ start' = now
    /\ pc' = "porchWait"
    /\ UNCHANGED << hostVars, canvas, scanVars, timerRunning, nextFire, hdr, pair, call, now, probe >>

\* while ((micros() - start) < porchDuration) { }
PorchWait ==
    /\ pc = "porchWait"
    /\ TimerQuietUntil(start + porchDuration)
    /\ now' = IF now - start < porchDuration THEN start + porchDuration ELSE now
    /\ pc' = "setSegment"
    /\ call' = 1
    /\ UNCHANGED << hostVars, canvas, scanVars, timerRunning, nextFire, hdr, pair, start, log, probe >>

\* ledc_stop(LEDC_HIGH_SPEED_MODE, LEDC_CHANNEL_0, 0);
StopTone ==
    /\ pc = "stop"
    /\ log' = Append(log, Ev("stop", 0, "-", -1, -1, -1))
    /\ pc' = "done"
    /\ UNCHANGED << hostVars, canvas, scanVars, timerRunning, nextFire, hdr, pair, call,
                    start, now, probe >>

\* ------------------------------------ transmitLineY_HW / DiffRY_HW / DiffBY_HW

\* currentSegment = SEG_Y | SEG_RY | SEG_BY;   (entry of the call)
SetSegment ==
    /\ pc = "setSegment"
    /\ currentSegment' = ThisCall.seg
    /\ log' = Append(log, Ev("begin", 0, ThisCall.seg, -1, ThisCall.r1, ThisCall.r2))
    /\ pc' = "setRows"
    /\ UNCHANGED << hostVars, canvas, pixelCounter, rowFinished, currentRow, currentRowOdd,
                    currentRowEven, timerRunning, nextFire, hdr, pair, call, start,
                    now, probe >>

\* currentRow = row;   or   currentRowOdd = oddRow; currentRowEven = evenRow;
SetRows ==
    /\ pc = "setRows"
    /\ IF ThisCall.seg = "SEG_Y"
       THEN /\ currentRow' = ThisCall.r1
            /\ UNCHANGED << currentRowOdd, currentRowEven >>
       ELSE /\ currentRowOdd' = ThisCall.r1
            /\ currentRowEven' = ThisCall.r2
            /\ UNCHANGED currentRow
    /\ pc' = "resetCounter"
    /\ UNCHANGED << hostVars, canvas, pixelCounter, rowFinished, currentSegment, timerRunning,
                    nextFire, hdr, pair, call, start, now, log, probe >>

\* pixelCounter = 0;
ResetCounter ==
    /\ pc = "resetCounter"
    /\ pixelCounter' = 0
    /\ pc' = "clearFlag"
    /\ UNCHANGED << hostVars, canvas, rowFinished, currentSegment, currentRow, currentRowOdd,
                    currentRowEven, timerRunning, nextFire, hdr, pair, call, start,
                    now, log, probe >>

\* rowFinished = false;
ClearFlag ==
    /\ pc = "clearFlag"
    /\ rowFinished' = FALSE
    /\ pc' = "startTimer"
    /\ UNCHANGED << hostVars, canvas, pixelCounter, currentSegment, currentRow, currentRowOdd,
                    currentRowEven, timerRunning, nextFire, hdr, pair, call, start,
                    now, log, probe >>

\* esp_timer_start_periodic(pixelTimerHandle, pixelDuration): arms a stopped
\* timer; on a running timer it fails (ESP_ERR_INVALID_STATE) and changes nothing
StartTimer ==
    /\ pc = "startTimer"
    /\ IF timerRunning
       THEN UNCHANGED << timerRunning, nextFire >>
       ELSE /\ timerRunning' = TRUE
            /\ nextFire' = now + pixelDuration
    /\ log' = Append(log, Ev("start", 0, currentSegment, -1, -1, -1))
    /\ pc' = "waitRow"
    /\ UNCHANGED << hostVars, canvas, scanVars, hdr, pair, call, start, now, probe >>

\* a wait loop that never sees the flag
RowWaitOver_never == FALSE

RowWaitOver_nowait == TRUE

\* while (!rowFinished) { }  is left
RowWaitOver == rowFinished

\* the wait loop is left; return; the next call, or pair++
WaitRow ==
    /\ pc = "waitRow"
    /\ RowWaitOver
    /\ IF call < 4
       THEN /\ call' = call + 1
            /\ pc' = "setSegment"
            /\ UNCHANGED pair
       ELSE /\ call' = 1
            /\ pair' = pair + 1
            /\ pc' = "loop"
    /\ UNCHANGED << hostVars, canvas, scanVars, timerRunning, nextFire, hdr, start, now, log, probe >>

\* ----------------------------------------------------- pixelTimerCallback

RowComplete_offByOne(n) == n > imageWidth

\* a row that ends early when the surface starts with a black pixel
RowComplete_data(n) == n >= imageWidth \/ canvas[0] = 0

\* if (pixelCounter >= imageWidth)
RowComplete(n) == n >= imageWidth

\* the rows the callback samples for the current segment
SampledRows ==
    IF currentSegment = "SEG_Y"
    THEN << currentRow, -1 >>
    ELSE << currentRowOdd, currentRowEven >>

\* a read that consumes the pixel it returns
BufferAfterRead_consumed(x, y) ==
    [idx \in DOMAIN canvas |-> IF idx = y * imageWidth + x THEN 0 ELSE canvas[idx]]

\* the buffer after getCanvasPixel(x, y, ...): the pixel is loaded, nothing
\* is stored
BufferAfterRead(x, y) == canvas

\* the difference segments take the first row alone, without the average
CallbackFrequency_firstRow(j1, j2) ==
    IF currentSegment = "SEG_Y"
    THEN mapYToFrequency(convertToSSTV(getCanvasPixel(pixelCounter, currentRow, j1)).Y)
    ELSE LET c1 == convertToSSTV(getCanvasPixel(pixelCounter, currentRowOdd, j1))
         IN  IF currentSegment = "SEG_RY"
             THEN mapDiffToFrequency(c1.RmY)
             ELSE mapDiffToFrequency(c1.BmY)

\* the frequency the callback computes, lines 206-236
CallbackFrequency(j1, j2) ==
    IF currentSegment = "SEG_Y"
    THEN mapYToFrequency(convertToSSTV(getCanvasPixel(pixelCounter, currentRow, j1)).Y)
    ELSE LET c1 == convertToSSTV(getCanvasPixel(pixelCounter, currentRowOdd, j1))
             c2 == convertToSSTV(getCanvasPixel(pixelCounter, currentRowEven, j2))
         IN  IF currentSegment = "SEG_RY"
             THEN mapDiffToFrequency(Average(c1.RmY, c2.RmY))
             ELSE mapDiffToFrequency(Average(c1.BmY, c2.BmY))

pixelTimerCallback ==
    /\ timerRunning
    /\ now <= nextFire
    /\ now' = nextFire
    /\ \E j1 \in PaletteSet, j2 \in PaletteSet :
          LET tick == [ledcWriteTone("tick", CallbackFrequency(j1, j2), currentSegment,
                                     pixelCounter, SampledRows[1], SampledRows[2])
                         EXCEPT !.at = nextFire]
          IN  IF RowComplete(pixelCounter + 1)
              THEN /\ timerRunning' = FALSE
                   /\ rowFinished' = TRUE
                   /\ nextFire' = nextFire
                   /\ log' = log \o << tick, [Ev("done", 0, currentSegment, -1, -1, -1)
                                                EXCEPT !.at = nextFire] >>
              ELSE /\ nextFire' = nextFire + pixelDuration
                   /\ log' = Append(log, tick)
                   /\ UNCHANGED << timerRunning, rowFinished >>
    /\ pixelCounter' = pixelCounter + 1
    /\ canvas' = BufferAfterRead(pixelCounter, SampledRows[1])
    /\ UNCHANGED << hostVars, currentSegment, currentRow, currentRowOdd, currentRowEven,
                    pc, hdr, pair, call, start, probe >>

\* ------------------------------------------------------------------- Spec

Next ==
    \/ tonePulse
    \/ LoopTest
    \/ SyncPulse
    \/ SyncWait
    \/ PorchPulse
    \/ PorchWait
    \/ SetSegment
    \/ SetRows
    \/ ResetCounter
    \/ ClearFlag
    \/ StartTimer
    \/ WaitRow
    \/ StopTone
    \/ pixelTimerCallback

Spec == Init /\ [][Next]_vars

\* ------------------------------------------------------------- progress

\* the processor keeps executing the main line of control, the clock keeps
\* running, and an armed periodic timer fires when it is due
SpecLive == Spec /\ WF_vars(Next) /\ WF_vars(pixelTimerCallback)

\* ------------------------------------------ the busy waits on micros()

\* a uint32_t is kept as << high half, low half >>, each below 2^16
Half == 65536

\* the longest time between two reads of micros() in a wait loop
MaxStep == 3

\* a + d in uint32_t, for 0 <= d < 2^16
Add32(a, d) ==
    LET lo == a[2] + d
    IN  << (a[1] + lo \div Half) % Half, lo % Half >>

\* the subtraction without the borrow into the high half
Sub32_noBorrow(a, b) == << (a[1] - b[1]) % Half, (a[2] - b[2]) % Half >>

\* (a - b) in uint32_t: the difference modulo 2^32
Sub32(a, b) ==
    LET lo == a[2] - b[2]
        borrow == IF lo < 0 THEN 1 ELSE 0
    IN  << (a[1] - b[1] - borrow) % Half, lo % Half >>

\* a < d for a uint32_t a and a duration d below 2^16
Less32(a, d) == a[1] = 0 /\ a[2] < d

\* the duration the wait at position p compares with
WaitDuration(p) == IF p = "syncWait" THEN syncPulseDuration ELSE porchDuration

\* values of start = micros(): just after boot, mid-range, and so close to
\* 2^32 that the clock wraps before, when or after the wait is over
Starts ==
    { << 0, 0 >>, << Half \div 2, 1 >>, << Half - 1, Half - 1 >>, << Half - 1, 0 >>,
      << Half - 1, Half - syncPulseDuration >>, << Half - 1, Half - porchDuration >>,
      << Half - 1, Half - syncPulseDuration + 1 >>, << Half - 1, Half - porchDuration - 1 >> }

\* uint32_t start = micros();  at the head of either wait loop; here now and
\* start hold the 32-bit words and probe.fa the time that has really passed
InitWait ==
    /\ canvas = Surface(0, 0, 0)
    /\ pixelCounter = 0
    /\ rowFinished = FALSE
    /\ currentSegment = "SEG_Y"
    /\ currentRow = 0
    /\ currentRowOdd = 0
    /\ currentRowEven = 0
    /\ timerRunning = FALSE
    /\ nextFire = 0
    /\ hdr = Len(transmitCalibrationHeader) + 1
    /\ pair = 0
    /\ call = 1
    /\ log = << >>
    /\ InitHost
    /\ pc \in {"syncWait", "porchWait"}
    /\ start \in Starts
    /\ now = start
    /\ probe = [fn |-> pc, a |-> 0, b |-> 0, fa |-> 0, fb |-> 0]

waitFrame == << hostVars, canvas, scanVars, timerRunning, nextFire, hdr, pair, call, log >>

\* while ((micros() - start) < duration) { }   the condition holds; time
\* passes until micros() is read again
BusyWaitSpin ==
    /\ pc \in {"syncWait", "porchWait"}
    /\ Less32(Sub32(now, start), WaitDuration(pc))
    /\ \E d \in 1..MaxStep :
          /\ now' = Add32(now, d)
          /\ probe' = [probe EXCEPT !.fa = @ + d]
    /\ UNCHANGED << waitFrame, pc, start >>

\* the condition fails: the loop is left
BusyWaitExit ==
    /\ pc \in {"syncWait", "porchWait"}
    /\ ~Less32(Sub32(now, start), WaitDuration(pc))
    /\ pc' = IF pc = "syncWait" THEN "porch" ELSE "setSegment"
    /\ UNCHANGED << waitFrame, start, now, probe >>

NextWait ==
    \/ BusyWaitSpin
    \/ BusyWaitExit

SpecWait == InitWait /\ [][NextWait]_vars

\* ------------------------------------------------- a failing timer start

\* esp_timer_start_periodic(pixelTimerHandle, pixelDuration) returns an error
\* and arms nothing; its result is dropped and the wait loop is entered
StartTimerFails ==
    /\ pc = "startTimer"
    /\ log' = Append(log, Ev("start_failed", 0, currentSegment, -1, -1, -1))
    /\ pc' = "waitRow"
    /\ UNCHANGED << hostVars, canvas, scanVars, timerRunning, nextFire, hdr, pair, call,
                    start, now, probe >>

NextFault ==
    \/ Next
    \/ StartTimerFails

SpecFault == Init /\ [][NextFault]_vars

\* ------------------------------------------ takeAndTransmitImageViaSSTV

\* what a populated buffer can hold
Surfaces ==
    { Surface(a, b, c) : a \in 0..1, b \in 0..(Len(Palette) - 1), c \in 0..(Len(Palette) - 1) }

\* fillScreen(0x29ee)
Background == Surface(0, 0, Len(Palette) - 1)

\* entry of takeAndTransmitImageViaSSTV: nothing allocated, PTT released.
\* canvas stands for the memory the buffer pointer refers to.
InitTake ==
    /\ canvas \in Surfaces
    /\ InitTransmission
    /\ pc = "generateBaseImage"
    /\ ptt = "LOW"
    /\ fb = "none"
    /\ rgb565_buffer = "none"
    /\ targetBuffer = "none"
    /\ probe = NoProbe

takeVars == << scanVars, timerRunning, nextFire, hdr, pair, call, start, now, log, probe >>

\* generateBaseImage(); targetBuffer = canvas->getBuffer();
\* heap_caps_malloc succeeds or returns null; the drawing calls do nothing on
\* a null buffer and nothing is checked or returned
generateBaseImage ==
    /\ pc = "generateBaseImage"
    /\ \/ targetBuffer' = "valid" /\ canvas' = Background
       \/ targetBuffer' = "null" /\ UNCHANGED canvas
    /\ pc' = "capture"
    /\ UNCHANGED << takeVars, ptt, fb, rgb565_buffer >>

\* fb = esp_camera_fb_get();   if (!fb) ... else ...
Capture ==
    /\ pc = "capture"
    /\ \/ fb' = "held" /\ pc' = "allocRgb"
       \/ fb' = "null" /\ pc' = "overlay"
    /\ UNCHANGED << takeVars, canvas, ptt, rgb565_buffer, targetBuffer >>

\* rgb565_buffer = heap_caps_malloc(...); if (rgb565_buffer == NULL) return;
AllocRgb ==
    /\ pc = "allocRgb"
    /\ \/ rgb565_buffer' = "valid" /\ pc' = "convert"
       \/ rgb565_buffer' = "null" /\ pc' = "returned"
    /\ UNCHANGED << takeVars, canvas, ptt, fb, targetBuffer >>

\* result = jpg2rgb565(...); if (!result) free(rgb565_buffer);
Convert ==
    /\ pc = "convert"
    /\ \/ UNCHANGED rgb565_buffer
       \/ rgb565_buffer' = "freed"
    /\ pc' = "copy"
    /\ UNCHANGED << takeVars, canvas, ptt, fb, targetBuffer >>

\* the copy loop: reads rgb565_buffer, writes targetBuffer[destIndex].
\* A write through a null targetBuffer is undefined: the store faults, or it
\* lands somewhere and the loop goes on. A read of a freed rgb565_buffer
\* yields whatever the heap holds.
CopyImage ==
    /\ pc = "copy"
    /\ \/ canvas' \in Surfaces /\ pc' = "release"
       \/ targetBuffer = "null" /\ pc' = "panicked" /\ UNCHANGED canvas
    /\ UNCHANGED << takeVars, ptt, fb, rgb565_buffer, targetBuffer >>

\* esp_camera_fb_return(fb); free(rgb565_buffer);
\* freeing a buffer that was freed already is undefined: the heap check
\* aborts, or the call returns
Release ==
    /\ pc = "release"
    /\ fb' = "returned"
    /\ rgb565_buffer' = IF rgb565_buffer = "freed" THEN "freed twice" ELSE "freed"
    /\ \/ pc' = "overlay"
       \/ rgb565_buffer = "freed" /\ pc' = "panicked"
    /\ UNCHANGED << takeVars, canvas, ptt, targetBuffer >>

\* addOverlayText(TEXT_TOP, ...); addOverlayText(TEXT_BOTTOM, ...);
\* the canvas drawing calls do nothing on a null buffer
Overlay ==
    /\ pc = "overlay"
    /\ IF targetBuffer = "valid" THEN canvas' \in Surfaces ELSE UNCHANGED canvas
    /\ pc' = "pttOn"
    /\ UNCHANGED << takeVars, ptt, fb, rgb565_buffer, targetBuffer >>

\* the transmission entered without keying PTT
PttOn_skipped ==
    /\ pc = "pttOn"
    /\ pc' = "header"
    /\ UNCHANGED << takeVars, canvas, ptt, fb, rgb565_buffer, targetBuffer >>

\* digitalWrite(PTT, HIGH); then transmitCalibrationHeader()
PttOn ==
    /\ pc = "pttOn"
    /\ ptt' = "HIGH"
    /\ pc' = "header"
    /\ UNCHANGED << takeVars, canvas, fb, rgb565_buffer, targetBuffer >>

\* the callback's read through a null buffer pointer faults
\* (the other outcome, a read of whatever lies there, is pixelTimerCallback)
CallbackPanics ==
    /\ timerRunning
    /\ targetBuffer = "null"
    /\ now <= nextFire
    /\ now' = nextFire
    /\ timerRunning' = FALSE
    /\ pc' = "panicked"
    /\ UNCHANGED << hostVars, canvas, scanVars, nextFire, hdr, pair, call, start, log, probe >>

\* digitalWrite(PTT, LOW); after transmitPD120Image_HW has returned
PttOff ==
    /\ pc = "done"
    /\ ptt' = "LOW"
    /\ pc' = "freeTarget"
    /\ UNCHANGED << takeVars, canvas, fb, rgb565_buffer, targetBuffer >>

\* free(targetBuffer);
FreeTarget ==
    /\ pc = "freeTarget"
    /\ targetBuffer' = IF targetBuffer = "null" THEN "null" ELSE "freed"
    /\ pc' = "returned"
    /\ UNCHANGED << takeVars, canvas, ptt, fb, rgb565_buffer >>

NextTake ==
    \/ generateBaseImage
    \/ Capture
    \/ AllocRgb
    \/ Convert
    \/ CopyImage
    \/ Release
    \/ Overlay
    \/ PttOn
    \/ Next
    \/ CallbackPanics
    \/ PttOff
    \/ FreeTarget

SpecTake == InitTake /\ [][NextTake]_vars

\* ------------------------------------------- the frequency-mapping calls

\* the arguments of a call: two values a <= b of the float argument
InitMap ==
    /\ canvas = Surface(0, 0, 0)
    /\ InitGlobals
    /\ InitHost
    /\ \E a \in -128..255, b \in -128..255 :
          /\ a <= b
          /\ probe = [fn |-> "none", a |-> a, b |-> b, fa |-> 0, fb |-> 0]

\* mapYToFrequency(a), mapYToFrequency(b)
CallMapY ==
    /\ probe.fn = "none"
    /\ probe.a >= 0
    /\ probe' = [probe EXCEPT !.fn = "mapY",
                              !.fa = mapYToFrequency(probe.a * Unit),
                              !.fb = mapYToFrequency(probe.b * Unit)]
    /\ UNCHANGED << hostVars, canvas, scanVars, timerRunning, nextFire, pc, hdr, pair, call,
                    start, now, log >>

\* mapDiffToFrequency(a), mapDiffToFrequency(b)
CallMapDiff ==
    /\ probe.fn = "none"
    /\ probe.b <= 127
    /\ probe' = [probe EXCEPT !.fn = "mapDiff",
                              !.fa = mapDiffToFrequency(probe.a * Unit),
                              !.fb = mapDiffToFrequency(probe.b * Unit)]
    /\ UNCHANGED << hostVars, canvas, scanVars, timerRunning, nextFire, pc, hdr, pair, call,
                    start, now, log >>

NextMap ==
    \/ CallMapY
    \/ CallMapDiff

SpecMap == InitMap /\ [][NextMap]_vars

\* ------------------------------------------------ the colour conversions

\* the 8-bit channel values of the triples convertToSSTV is called with
Levels == { 17 * k : k \in 0..15 } \cup {1, 254}

\* the arguments of a call: a packed pixel p at (0, 0) and, at (1, 0), p with
\* one of its fields advanced; or an RGB8 triple, every gray among them
InitColor ==
    /\ InitGlobals
    /\ InitHost
    /\ \/ \E p \in 0..65535, d \in {1, 32, 2048} :
             /\ canvas = [idx \in 0..(imageWidth * imageHeight - 1) |->
                            IF idx = 0 THEN p ELSE (p + d) % 65536]
             /\ probe = [fn |-> "packed", a |-> p, b |-> (p + d) % 65536, fa |-> 0, fb |-> 0]
       \/ \E R \in Levels, G \in Levels, B \in Levels :
             /\ canvas = Surface(0, 0, 0)
             /\ probe = [fn |-> "rgb", a |-> [R |-> R, G |-> G, B |-> B], b |-> 0,
                         fa |-> 0, fb |-> 0]
       \/ \E c \in 0..255 :
             /\ canvas = Surface(0, 0, 0)
             /\ probe = [fn |-> "rgb", a |-> [R |-> c, G |-> c, B |-> c], b |-> 0,
                         fa |-> 0, fb |-> 0]

\* getCanvasPixel(0, 0, R, G, B), getCanvasPixel(1, 0, R, G, B)
CallGetCanvasPixel ==
    /\ probe.fn = "packed"
    /\ probe' = [probe EXCEPT !.fn = "getCanvasPixel",
                              !.fa = getCanvasPixel(0, 0, 0),
                              !.fb = getCanvasPixel(1, 0, 0)]
    /\ UNCHANGED << hostVars, canvas, scanVars, timerRunning, nextFire, pc, hdr, pair,
                    call, start, now, log >>

\* convertToSSTV(R, G, B, Y, RY, BY)
CallConvertToSSTV ==
    /\ probe.fn = "rgb"
    /\ probe' = [probe EXCEPT !.fn = "convertToSSTV", !.fa = convertToSSTV(probe.a)]
    /\ UNCHANGED << hostVars, canvas, scanVars, timerRunning, nextFire, pc, hdr, pair,
                    call, start, now, log >>

NextColor ==
    \/ CallGetCanvasPixel
    \/ CallConvertToSSTV

SpecColor == InitColor /\ [][NextColor]_vars

\* =================================================================== claims

Min(S) == CHOOSE m \in S : \A n \in S : m <= n

IsPrefix(s, t) == Len(s) <= Len(t) /\ \A i \in 1..Len(s) : s[i] = t[i]

Positions(kinds) == { i \in 1..Len(log) : log[i].ev \in kinds }

CountBefore(kinds, i) == Cardinality({ j \in 1..(i - 1) : log[j].ev \in kinds })

\* the last begin-segment call before position i (0: none)
LastBegin(i) ==
    LET S == { j \in 1..(i - 1) : log[j].ev = "begin" }
    IN  IF S = {} THEN 0 ELSE CHOOSE m \in S : \A n \in S : n <= m

\* ---------------------------------------------------------------------- C1

SequencerEvents == {"sync", "porch", "begin"}

IsSequencerEvent(e) == e.ev \in SequencerEvents

Shape(e) == << e.ev, e.freq, e.seg, e.r1, e.r2 >>

\* what the sequencer did, in order: sync and porch writes, segment calls
SequencerLog ==
    LET sel == SelectSeq(log, IsSequencerEvent)
    IN  [i \in 1..Len(sel) |-> Shape(sel[i])]

\* pairs k = 0 .. H/2 - 1 in increasing order, six steps each
ExpectedSequence ==
    [i \in 1..(6 * (imageHeight \div 2)) |->
        LET k == (i - 1) \div 6
            j == (i - 1) % 6
        IN  CASE j = 0 -> << "sync", 1200, "-", -1, -1 >>
              [] j = 1 -> << "porch", 1500, "-", -1, -1 >>
              [] j = 2 -> << "begin", 0, "SEG_Y", 2 * k, -1 >>
              [] j = 3 -> << "begin", 0, "SEG_RY", 2 * k, 2 * k + 1 >>
              [] j = 4 -> << "begin", 0, "SEG_BY", 2 * k, 2 * k + 1 >>
              [] j = 5 -> << "begin", 0, "SEG_Y", 2 * k + 1, -1 >>]

\* C1: a run of transmitPD120Image_HW over H rows emits, for k = 0 .. H/2 - 1
\* in increasing order and with nothing omitted, repeated or reordered: sync
\* (1200 Hz), porch (1500 Hz), Luminance on row 2k, RedDifference on rows
\* (2k, 2k+1), BlueDifference on rows (2k, 2k+1), Luminance on row 2k+1; at
\* every moment what has been emitted is a prefix of that sequence, at the
\* end it is all of it, and every tick works on the segment and rows of the
\* call it belongs to.
C1_LinePairOrder ==
    /\ IsPrefix(SequencerLog, ExpectedSequence)
    /\ pc = "done" => SequencerLog = ExpectedSequence
    /\ \A i \in Positions({"tick"}) :
          /\ LastBegin(i) > 0
          /\ log[i].seg = log[LastBegin(i)].seg
          /\ log[i].r1 = log[LastBegin(i)].r1
          /\ log[i].r2 = log[LastBegin(i)].r2

C1_Witness ==
    /\ pc = "done"
    /\ imageHeight \div 2 >= 2
    /\ Len(SequencerLog) = 6 * (imageHeight \div 2)
    /\ Cardinality(Positions({"tick"})) = 4 * imageWidth * (imageHeight \div 2)

\* ---------------------------------------------------------------------- C2

\* the number of tonePulse calls of the header
HeaderLength == Len(transmitCalibrationHeader)

\* C2: the calibration header is complete before the first line-pair sync
\* tone is written, all line pairs have run before the tone generator is
\* silenced, the silence call happens once, directly after the completion
\* of the last segment of the last pair, and nothing is written to the
\* peripheral after it.
C2_HeaderPairsSilence ==
    /\ \A i \in 1..Len(log) : (log[i].ev = "header") <=> (i <= HeaderLength)
    /\ \A i \in Positions({"sync"}) :
          /\ i > HeaderLength
          /\ log[i].at >= log[HeaderLength].at + transmitCalibrationHeader[HeaderLength][2]
    /\ \A i \in Positions({"stop"}) :
          /\ i = Len(log)
          /\ log[i - 1].ev = "done"
          /\ CountBefore({"sync"}, i) = imageHeight \div 2
          /\ CountBefore({"begin"}, i) = 4 * (imageHeight \div 2)
          /\ CountBefore({"done"}, i) = 4 * (imageHeight \div 2)
          /\ CountBefore({"tick"}, i) = 4 * imageWidth * (imageHeight \div 2)
    /\ Cardinality(Positions({"stop"})) <= 1
    /\ pc = "done" => Cardinality(Positions({"stop"})) = 1 /\ ~timerRunning

C2_Witness ==
    /\ pc = "done"
    /\ log[Len(log)].ev = "stop"
    /\ log[Len(log) - 1].ev = "done"
    /\ log[HeaderLength + 1].ev = "sync"

\* ---------------------------------------------------------------------- C3

RunEvents == {"start", "tick", "done"}

\* the position after the run of timer events that follows the call at i
RunEnd(i) ==
    LET S == { j \in (i + 1)..Len(log) : log[j].ev \notin RunEvents }
    IN  IF S = {} THEN Len(log) + 1 ELSE Min(S)

\* what a begin-segment call is followed by: the timer start, W ticks on
\* columns 0 .. W-1, one completion
ExpectedRun ==
    [k \in 1..(imageWidth + 2) |->
        IF k = 1 THEN "start" ELSE IF k = imageWidth + 2 THEN "done" ELSE "tick"]

\* C3: for every begin-segment call the timer callback runs exactly W times,
\* rowFinished is set once, on the W-th tick and not before, and no tick of
\* that segment follows it.
C3_ExactlyWTicks ==
    /\ \A i \in Positions({"begin"}) :
          LET n == RunEnd(i) - i - 1
          IN  /\ n <= imageWidth + 2
              /\ \A k \in 1..n : k <= imageWidth + 2 => log[i + k].ev = ExpectedRun[k]
              /\ RunEnd(i) <= Len(log) => n = imageWidth + 2
    /\ \A j \in Positions(RunEvents) :
          j > 1 /\ log[j - 1].ev \in {"begin", "start", "tick"}
    /\ (rowFinished /\ pc \in {"startTimer", "waitRow"}) =>
          /\ log[Len(log)].ev = "done"
          /\ ~timerRunning
    /\ (pc = "waitRow" /\ ~rowFinished) =>
          /\ log[Len(log)].ev \in {"start", "tick"}
          /\ timerRunning

C3_Witness ==
    /\ pc = "waitRow"
    /\ rowFinished
    /\ pixelCounter = imageWidth
    /\ Len(log) > imageWidth + 1
    /\ log[Len(log) - imageWidth - 1].ev = "start"

\* ---------------------------------------------------------------------- C4

\* duration of the tone written at position i: the time to the next write
HeldFor(i) == log[i + 1].at - log[i].at

HeaderAsClaimed(parityDuration) ==
    << <<1900, 300000>>, <<1200, 10000>>, <<1900, 300000>>, <<1200, 30000>>,
       <<1100, 30000>>, <<1100, 30000>>, <<1100, 30000>>, <<1100, 30000>>,
       <<1100, 30000>>, <<1300, 30000>>, <<1100, 30000>>,
       <<1300, parityDuration>>, <<1200, 30000>> >>

HeaderMatches(expected) ==
    /\ Cardinality(Positions({"header"})) <= Len(expected)
    /\ pc # "header" => Cardinality(Positions({"header"})) = Len(expected)
    /\ \A k \in 1..Len(expected) :
          /\ k <= Len(log) => log[k].ev = "header" /\ log[k].freq = expected[k][1]
          /\ k < Len(log) => HeldFor(k) = expected[k][2]

\* C4 as stated: 13 pulses; the parity pulse is 1300 Hz for 1300 us.
C4_Original == HeaderMatches(HeaderAsClaimed(1300))

\* C4: transmitCalibrationHeader emits exactly 13 pulses, in this order:
\* 1900 Hz 300000 us, 1200 Hz 10000 us, 1900 Hz 300000 us, 1200 Hz 30000 us,
\* seven bit pulses of 30000 us at 1100, 1100, 1100, 1100, 1100, 1300,
\* 1100 Hz, a parity pulse at 1300 Hz for 30000 us, a stop pulse at 1200 Hz
\* for 30000 us.
C4_HeaderPulses == HeaderMatches(HeaderAsClaimed(30000))

C4_Witness ==
    /\ pc = "syncWait"
    /\ pair = 0
    /\ Len(log) = HeaderLength + 1
    /\ log[HeaderLength].freq = 1200
    /\ HeldFor(HeaderLength - 1) = 30000

\* ---------------------------------------------------------------------- C5

PictureBand == 1500..2300

ProtocolTones == {1100, 1200, 1300, 1500, 1900, 2300}

\* C5: every frequency the tick handler writes during a scan segment lies
\* in [1500, 2300] Hz, whatever the surface holds, and every other frequency
\* written is one of 1100, 1200, 1300, 1500, 1900, 2300 Hz.
C5_FrequencyBands ==
    /\ \A i \in Positions({"tick"}) : log[i].freq \in PictureBand
    /\ \A i \in Positions({"header", "sync", "porch"}) : log[i].freq \in ProtocolTones

\* ---------------------------------------------------------------------- C6

\* C6: every surface read of the tick handler uses a column x = pixelCounter
\* with 0 <= x < W and rows y with 0 <= y < H, so an index inside the buffer;
\* the handler is never due to run with pixelCounter >= W.
C6_ReadsInBounds ==
    /\ \A i \in Positions({"tick"}) :
          /\ log[i].x \in 0..(imageWidth - 1)
          /\ log[i].r1 \in 0..(imageHeight - 1)
          /\ log[i].seg # "SEG_Y" => log[i].r2 \in 0..(imageHeight - 1)
          /\ log[i].r1 * imageWidth + log[i].x \in DOMAIN canvas
          /\ log[i].seg # "SEG_Y" => log[i].r2 * imageWidth + log[i].x \in DOMAIN canvas
    /\ timerRunning =>
          /\ pixelCounter \in 0..(imageWidth - 1)
          /\ SampledRows[1] \in 0..(imageHeight - 1)
          /\ currentSegment # "SEG_Y" => SampledRows[2] \in 0..(imageHeight - 1)

\* the last column of the last row has been sampled
C6_Witness ==
    /\ Len(log) > 1
    /\ log[Len(log) - 1].ev = "tick"
    /\ log[Len(log) - 1].x = imageWidth - 1
    /\ log[Len(log) - 1].r1 = imageHeight - 1
    /\ pixelCounter = imageWidth

\* ---------------------------------------------------------------------- C7

\* C7: segments never overlap: the timer is started only when it is not
\* running, it runs only while the main line of control waits on
\* rowFinished, and the main line begins the next segment, writes the next
\* sync or porch tone or silences the output only after every timer start so
\* far has been answered by the handler's completion.
C7_NoOverlap ==
    /\ pc = "startTimer" => ~timerRunning
    /\ timerRunning => pc = "waitRow" /\ ~rowFinished
    /\ \A i \in Positions({"begin", "start", "sync", "porch", "stop"}) :
          CountBefore({"start"}, i) = CountBefore({"done"}, i)
    /\ (pc \notin {"clearFlag", "startTimer", "waitRow"} /\ Positions({"start"}) # {}) =>
          rowFinished

C7_Witness ==
    /\ pc = "startTimer"
    /\ ~timerRunning
    /\ CountBefore({"done"}, Len(log) + 1) >= 4
    /\ call = 2

\* ---------------------------------------------------------------------- C8

AllWhite == \A idx \in DOMAIN canvas : canvas[idx] = 65535

\* C8: on a surface filled with 0xFFFF every tick of a Luminance segment
\* writes 2300 Hz and every tick of a RedDifference or BlueDifference
\* segment writes 1901 Hz.
C8_WhiteSurface ==
    AllWhite =>
        \A i \in Positions({"tick"}) :
            log[i].freq = IF log[i].seg = "SEG_Y" THEN 2300 ELSE 1901

C8_Witness ==
    /\ AllWhite
    /\ pc = "done"
    /\ \E i \in Positions({"tick"}) : log[i].seg = "SEG_RY" /\ log[i].freq = 1901
    /\ \E i \in Positions({"tick"}) : log[i].seg = "SEG_BY" /\ log[i].freq = 1901
    /\ \E i \in Positions({"tick"}) : log[i].seg = "SEG_Y" /\ log[i].freq = 2300

\* ---------------------------------------------------------------------- C9

\* the value of the float argument v, scaled as the mapping scales it
Scaled(fn, v) == IF fn = "mapY" THEN 800 * v ELSE 800 * (v + 128)

\* f = 1500 + round(s / 255), round to nearest
IsRounded(f, s) ==
    LET k == f - 1500
    IN  2 * (255 * k - s) <= 255 /\ 2 * (s - 255 * k) <= 255

\* f = 1500 + the integer part of s / 255
IsTruncated(f, s) ==
    LET k == f - 1500
    IN  255 * k <= s /\ s < 255 * (k + 1)

\* C9 as stated: the mappings round to nearest.
C9_Original ==
    probe.fn # "none" =>
        /\ IsRounded(probe.fa, Scaled(probe.fn, probe.a))
        /\ IsRounded(probe.fb, Scaled(probe.fn, probe.b))

\* C9: for every Y in 0..255, mapYToFrequency(Y) = 1500 + the integer part
\* of Y/255 * 800, and for every D in -128..127, mapDiffToFrequency(D) =
\* 1500 + the integer part of (D+128)/255 * 800 (truncation, not rounding).
C9_Truncates ==
    probe.fn # "none" =>
        /\ IsTruncated(probe.fa, Scaled(probe.fn, probe.a))
        /\ IsTruncated(probe.fb, Scaled(probe.fn, probe.b))

\* Y = 4: 4/255 * 800 = 12.55, written as 1512; D = 0: 401.57, written as 1901
C9_Witness ==
    \/ probe.fn = "mapY" /\ probe.a = 4 /\ probe.fa = 1512 /\ probe.b = 255
    \/ probe.fn = "mapDiff" /\ probe.a = 0 /\ probe.fa = 1901 /\ probe.b = 127

\* --------------------------------------------------------------------- C10

\* C10: mapYToFrequency(0) = 1500, mapYToFrequency(255) = 2300, and
\* mapYToFrequency(Y1) <= mapYToFrequency(Y2) for all Y1 <= Y2 in [0, 255].
C10_LumaEndpointsMonotone ==
    probe.fn = "mapY" =>
        /\ probe.a = 0 => probe.fa = 1500
        /\ probe.b = 255 => probe.fb = 2300
        /\ probe.a <= probe.b => probe.fa <= probe.fb

C10_Witness ==
    /\ probe.fn = "mapY"
    /\ probe.a = 0
    /\ probe.b = 255
    /\ probe.fa = 1500
    /\ probe.fb = 2300


\* --------------------------------------------------------------------- C11

\* C11: mapDiffToFrequency(-128) = 1500, mapDiffToFrequency(127) = 2300, and
\* mapDiffToFrequency(D1) <= mapDiffToFrequency(D2) for all D1 <= D2 in
\* [-128, 127].
C11_DiffEndpointsMonotone ==
    probe.fn = "mapDiff" =>
        /\ probe.a = -128 => probe.fa = 1500
        /\ probe.b = 127 => probe.fb = 2300
        /\ probe.a <= probe.b => probe.fa <= probe.fb

C11_Witness ==
    /\ probe.fn = "mapDiff"
    /\ probe.a = -128
    /\ probe.b = 127
    /\ probe.fa = 1500
    /\ probe.fb = 2300


\* --------------------------------------------------------------------- C12

\* the bit field of p that starts at bit log2(weight) and has `size` values
Field(p, weight, size) == (p \div weight) % size

Black == [R |-> 0, G |-> 0, B |-> 0]

White == [R |-> 255, G |-> 255, B |-> 255]

InByte(v) == v \in 0..255

\* C12: for every packed 16-bit p, getCanvasPixel yields R = ((p >> 11) & 31)
\* * 255 / 31, G = ((p >> 5) & 63) * 255 / 63, B = (p & 31) * 255 / 31, each
\* in 0..255 and each the same for two pixels that agree on its bit field;
\* 0x0000 yields (0,0,0) and 0xFFFF yields (255,255,255).
C12_PixelChannels ==
    probe.fn = "getCanvasPixel" =>
        LET p == probe.a
            q == probe.b
            c == probe.fa
            e == probe.fb
        IN  /\ 31 * c.R <= 255 * Field(p, 2048, 32) /\ 255 * Field(p, 2048, 32) < 31 * (c.R + 1)
            /\ 63 * c.G <= 255 * Field(p, 32, 64) /\ 255 * Field(p, 32, 64) < 63 * (c.G + 1)
            /\ 31 * c.B <= 255 * Field(p, 1, 32) /\ 255 * Field(p, 1, 32) < 31 * (c.B + 1)
            /\ InByte(c.R) /\ InByte(c.G) /\ InByte(c.B)
            /\ Field(p, 2048, 32) = Field(q, 2048, 32) => c.R = e.R
            /\ Field(p, 32, 64) = Field(q, 32, 64) => c.G = e.G
            /\ Field(p, 1, 32) = Field(q, 1, 32) => c.B = e.B
            /\ p = 0 => c = Black
            /\ p = 65535 => c = White

\* white, and beside it the pixel that differs in the green field only
C12_Witness ==
    /\ probe.fn = "getCanvasPixel"
    /\ probe.b = 65535
    /\ probe.a = 65535 - 32
    /\ probe.fb = White
    /\ probe.fa = [R |-> 255, G |-> 250, B |-> 255]

\* --------------------------------------------------------------------- C13

Max3(t) ==
    IF t.R >= t.G /\ t.R >= t.B THEN t.R ELSE IF t.G >= t.B THEN t.G ELSE t.B

\* C13: for every RGB8 triple convertToSSTV yields Y = 0.299R + 0.587G +
\* 0.114B <= max(R, G, B), and for every gray R = G = B = c it yields Y = c,
\* R-Y = 0 and B-Y = 0.
C13_LumaBelowMaxGrayNeutral ==
    probe.fn = "convertToSSTV" =>
        LET t == probe.a
            r == probe.fa
        IN  /\ r.Y % (Unit \div 1000) = 0
            /\ r.Y \div (Unit \div 1000) = 299 * t.R + 587 * t.G + 114 * t.B
            /\ r.Y <= Max3(t) * Unit
            /\ (t.R = t.G /\ t.G = t.B) =>
                  /\ r.Y = t.R * Unit
                  /\ r.RmY = 0
                  /\ r.BmY = 0

C13_Witness ==
    /\ probe.fn = "convertToSSTV"
    /\ probe.a = [R |-> 200, G |-> 200, B |-> 200]
    /\ probe.fa.Y = 200 * Unit
    /\ probe.fa.RmY = 0


\* --------------------------------------------------------------------- C14

\* the main line of control spins on rowFinished and no timer is armed
WaitsWithoutTimer == pc = "waitRow" /\ ~rowFinished /\ ~timerRunning

\* C14: when the pixel timer fails to start after a begin-segment call, the
\* encoder gives the segment up instead of waiting on the completion flag:
\* the main line of control never waits on rowFinished with no timer armed,
\* and nothing is transmitted after a failed start.
C14_AbortsOnTimerFailure ==
    /\ ~WaitsWithoutTimer
    /\ \A i \in Positions({"start_failed"}) : i = Len(log) /\ pc # "waitRow"


\* --------------------------------------------------------------------- C15

\* C15: when the allocation of the surface buffer has failed (the buffer is
\* null after generateBaseImage), neither transmitCalibrationHeader nor
\* transmitPD120Image_HW is invoked in that attempt: PTT is never keyed and
\* nothing is written to the tone peripheral.
C15_NoTransmissionWithoutSurface ==
    targetBuffer = "null" =>
        /\ ptt = "LOW"
        /\ log = << >>
        /\ pc \in {"capture", "allocRgb", "convert", "copy", "release", "overlay",
                   "pttOn", "panicked", "returned"}


\* --------------------------------------------------------------------- C16

WriteEvents == ToneEvents \cup {"stop"}

\* the next write to the tone peripheral after position i (0: none yet)
NextWrite(i) ==
    LET S == { j \in (i + 1)..Len(log) : log[j].ev \in WriteEvents }
    IN  IF S = {} THEN 0 ELSE Min(S)

\* the time the tone written at i stays the output, once it has been replaced
OutputFor(i) == log[NextWrite(i)].at - log[i].at

\* C16: in every line pair, from its write to the next tone write, the
\* 1200 Hz sync tone is the output for exactly 20000 us and the 1500 Hz
\* porch tone for exactly 2080 us.
C16_SyncPorchHeld ==
    /\ \A i \in Positions({"sync"}) :
          NextWrite(i) # 0 => log[i].freq = 1200 /\ OutputFor(i) = syncPulseDuration
    /\ \A i \in Positions({"porch"}) :
          NextWrite(i) # 0 => log[i].freq = 1500 /\ OutputFor(i) = porchDuration


\* --------------------------------------------------------------------- C17

\* C17: from the start of transmitCalibrationHeader until
\* transmitPD120Image_HW returns no step of the core writes to the pixel
\* surface, so its content at the end equals its content at the start.
C17_SurfaceNeverWritten == [][canvas' = canvas]_vars

\* a surface that is not uniform has been transmitted to the end
C17_Witness ==
    /\ pc = "done"
    /\ \E idx \in DOMAIN canvas : canvas[idx] # canvas[0]
    /\ Cardinality(Positions({"done"})) = 4 * (imageHeight \div 2)
    /\ \A idx \in DOMAIN canvas : canvas[idx] \in PaletteSet


\* --------------------------------------------------------------------- C18

RECURSIVE HeaderStart(_)
\* when the i-th pulse of the header starts
HeaderStart(i) ==
    IF i = 1 THEN 0 ELSE HeaderStart(i - 1) + transmitCalibrationHeader[i - 1][2]

\* begin, start, W ticks, done
SegmentEvents == imageWidth + 3

\* sync, porch, four segments
PairEvents == 2 + 4 * SegmentEvents

TimelineLength == HeaderLength + (imageHeight \div 2) * PairEvents + 1

\* what the timer makes of a segment, and of a pair
SegmentTime == imageWidth * pixelDuration

PairTime == syncPulseDuration + porchDuration + 4 * SegmentTime

PairStart(k) == HeaderStart(HeaderLength + 1) + k * PairTime

SegmentOrder == << "SEG_Y", "SEG_RY", "SEG_BY", "SEG_Y" >>

\* the one timeline of a transmission, written down from W, H and the
\* durations alone; the frequency of a tick is left out (0)
ExpectedTimeline ==
    [i \in 1..TimelineLength |->
        IF i <= HeaderLength
        THEN [ev |-> "header", freq |-> transmitCalibrationHeader[i][1],
              at |-> HeaderStart(i), seg |-> "-", x |-> i, r1 |-> -1, r2 |-> -1]
        ELSE IF i = TimelineLength
        THEN [ev |-> "stop", freq |-> 0, at |-> PairStart(imageHeight \div 2),
              seg |-> "-", x |-> -1, r1 |-> -1, r2 |-> -1]
        ELSE
        LET j == i - HeaderLength - 1
            k == j \div PairEvents
            m == j % PairEvents
            s == (m - 2) \div SegmentEvents
            q == (m - 2) % SegmentEvents
            S == PairStart(k) + syncPulseDuration + porchDuration + s * SegmentTime
            r1 == IF s = 3 THEN 2 * k + 1 ELSE 2 * k
            r2 == IF s \in {1, 2} THEN 2 * k + 1 ELSE -1
        IN  CASE m = 0 -> [ev |-> "sync", freq |-> 1200, at |-> PairStart(k),
                           seg |-> "-", x |-> -1, r1 |-> -1, r2 |-> -1]
              [] m = 1 -> [ev |-> "porch", freq |-> 1500,
                           at |-> PairStart(k) + syncPulseDuration,
                           seg |-> "-", x |-> -1, r1 |-> -1, r2 |-> -1]
              [] m >= 2 /\ q = 0 ->
                          [ev |-> "begin", freq |-> 0, at |-> S,
                           seg |-> SegmentOrder[s + 1], x |-> -1, r1 |-> r1, r2 |-> r2]
              [] m >= 2 /\ q = 1 ->
                          [ev |-> "start", freq |-> 0, at |-> S,
                           seg |-> SegmentOrder[s + 1], x |-> -1, r1 |-> -1, r2 |-> -1]
              [] m >= 2 /\ q = SegmentEvents - 1 ->
                          [ev |-> "done", freq |-> 0, at |-> S + SegmentTime,
                           seg |-> SegmentOrder[s + 1], x |-> -1, r1 |-> -1, r2 |-> -1]
              [] OTHER -> [ev |-> "tick", freq |-> 0, at |-> S + (q - 1) * pixelDuration,
                           seg |-> SegmentOrder[s + 1], x |-> q - 2, r1 |-> r1, r2 |-> r2]]

\* the log with the frequencies of the scan-segment ticks left out
ErasedLog ==
    [i \in 1..Len(log) |-> IF log[i].ev = "tick" THEN [log[i] EXCEPT !.freq = 0] ELSE log[i]]

\* C18: the transmissions of any two surfaces produce the same protocol
\* events at the same times with the same header, sync and porch
\* frequencies; only tick frequencies may differ. Whatever the surface, the
\* log without its tick frequencies is a prefix of one timeline that is
\* fixed by W, H and the durations, and the whole of it at the end.
C18_DataIndependentTimeline ==
    /\ IsPrefix(ErasedLog, ExpectedTimeline)
    /\ pc = "done" => Len(log) = TimelineLength

\* a finished transmission in which two ticks of Luminance segments wrote
\* different frequencies
C18_Witness ==
    /\ pc = "done"
    /\ Len(log) = TimelineLength
    /\ \E i \in Positions({"tick"}), j \in Positions({"tick"}) :
          /\ log[i].seg = "SEG_Y"
          /\ log[j].seg = "SEG_Y"
          /\ log[i].freq # log[j].freq


\* --------------------------------------------------------------------- C19

\* the logical value of a VIS pulse: 1100 Hz is 1, 1300 Hz is 0
BitOf(freq) == IF freq = 1100 THEN 1 ELSE IF freq = 1300 THEN 0 ELSE -1

\* the b-th bit pulse of the header: pulses 5 .. 11 are the data bits in
\* emission order, pulse 12 is the parity bit
VisBit(b) == BitOf(log[4 + b].freq)

RECURSIVE VisValue(_)
\* the value of the first n data bits, least-significant bit first
VisValue(n) == IF n = 0 THEN 0 ELSE VisBit(n) * 2 ^ (n - 1) + VisValue(n - 1)

RECURSIVE VisOnes(_)
VisOnes(n) == IF n = 0 THEN 0 ELSE VisBit(n) + VisOnes(n - 1)

\* C19: in the emitted header each of the 7 VIS data bits and the parity
\* bit is a 30000 us pulse at 1100 Hz (1) or 1300 Hz (0); the data bits read
\* least-significant bit first are 1,1,1,1,1,0,1 = 95, the parity bit is 0
\* and the number of 1s among the 8 bits is even.
C19_VisCode ==
    Len(log) > 12 =>
        /\ \A b \in 1..8 :
              /\ log[4 + b].ev = "header"
              /\ VisBit(b) \in {0, 1}
              /\ HeldFor(4 + b) = 30000
        /\ [b \in 1..7 |-> VisBit(b)] = << 1, 1, 1, 1, 1, 0, 1 >>
        /\ VisValue(7) = 95
        /\ VisBit(8) = 0
        /\ VisOnes(8) % 2 = 0

\* the stop pulse has been written: all eight bit pulses are over
C19_Witness ==
    /\ Len(log) = HeaderLength
    /\ pc = "loop"
    /\ log[10].freq = 1300
    /\ log[11].freq = 1100
    /\ VisValue(7) = 95

\* --------------------------------------------------------------------- C20

rowVars == << currentSegment, currentRow, currentRowOdd, currentRowEven >>

\* the position and the locals of the main line of control
mainVars == << pc, hdr, pair, call, start >>

\* a step of the main line of control: its position or a local changes
MainStep == mainVars' # mainVars

\* a step of the tick handler: the main line stays where it is
HandlerStep == mainVars' = mainVars /\ vars' # vars

\* C20: while a segment is running (from the timer start until the main
\* line observes rowFinished = true) the main line writes none of
\* currentSegment, currentRow, currentRowOdd, currentRowEven, pixelCounter,
\* rowFinished: its only step there is to leave the wait loop, with
\* rowFinished true. The tick handler runs only in that interval and writes
\* only pixelCounter and rowFinished.
C20_HandlerSoleWriter ==
    [][ /\ (pc = "waitRow" /\ MainStep) => (rowFinished /\ UNCHANGED scanVars)
        /\ (timerRunning /\ MainStep) => UNCHANGED scanVars
        /\ HandlerStep =>
              /\ pc = "waitRow"
              /\ timerRunning
              /\ UNCHANGED rowVars
              /\ pixelCounter' = pixelCounter + 1
              /\ rowFinished' => pixelCounter' = imageWidth ]_vars

C20_Witness ==
    /\ pc = "waitRow"
    /\ timerRunning
    /\ ~rowFinished
    /\ currentSegment = "SEG_BY"
    /\ pixelCounter = imageWidth - 1


\* --------------------------------------------------------------------- C21

\* the colour triple of the pixel the surface holds at column x of row y
PixelAt(x, y) == convertToSSTV(getCanvasPixel(x, y, 0))

\* the tone a tick on column x owes: Luminance of row `odd`, or the mean of
\* the two rows' differences
ToneOf(seg, x, odd, even) ==
    CASE seg = "SEG_Y" -> mapYToFrequency(PixelAt(x, odd).Y)
      [] seg = "SEG_RY" ->
            mapDiffToFrequency((PixelAt(x, odd).RmY + PixelAt(x, even).RmY) \div 2)
      [] seg = "SEG_BY" ->
            mapDiffToFrequency((PixelAt(x, odd).BmY + PixelAt(x, even).BmY) \div 2)

\* C21: the n-th tick (n = 1..W) of a segment samples column n-1; a
\* Luminance segment on row r writes mapYToFrequency(Y of (n-1, r)) and
\* reads no other row; a RedDifference (BlueDifference) segment on rows
\* (odd, even) writes mapDiffToFrequency of the mean of the R-Y (B-Y) values
\* of (n-1, odd) and (n-1, even). Columns go up by one from 0, none skipped
\* or repeated.
C21_TickSamplesColumn ==
    \A i \in Positions({"tick"}) :
        LET b == LastBegin(i)
            n == i - b - 1
        IN  /\ b > 0
            /\ n \in 1..imageWidth
            /\ log[i].x = n - 1
            /\ log[i].seg = log[b].seg
            /\ log[i].r1 = log[b].r1
            /\ log[i].r2 = log[b].r2
            /\ log[i].seg = "SEG_Y" => log[i].r2 = -1
            /\ log[i].seg # "SEG_Y" => log[i].r2 = log[i].r1 + 1
            /\ log[i].freq = ToneOf(log[i].seg, n - 1, log[b].r1, log[b].r2)

\* a RedDifference tick over two different pixels whose mean tone is the
\* tone of neither
C21_Witness ==
    \E i \in Positions({"tick"}) :
        /\ log[i].seg = "SEG_RY"
        /\ log[i].x = imageWidth - 1
        /\ log[i].freq # mapDiffToFrequency(PixelAt(log[i].x, log[i].r1).RmY)
        /\ log[i].freq # mapDiffToFrequency(PixelAt(log[i].x, log[i].r2).RmY)


\* --------------------------------------------------------------------- C22

\* C22: in every scan segment each of the W pixel tones, the tone of the
\* last column included, stays the output for one pixelDuration before the
\* next write (next pixel, next segment, sync pulse, silence) replaces it.
C22_PixelToneHeld ==
    \A i \in Positions({"tick"}) :
        NextWrite(i) # 0 => OutputFor(i) = pixelDuration


\* --------------------------------------------------------------------- C23

\* the positions at which the main line of control blocks
BlockingWaits == {"syncWait", "porchWait", "waitRow"}

\* C23: with a clock that advances and a started timer that keeps firing,
\* every blocking wait (sync, porch, each segment's wait on rowFinished)
\* eventually ends and the transmission eventually reaches the silence
\* call.
C23_TransmissionCompletes ==
    /\ \A w \in BlockingWaits : (pc = w) ~> (pc # w)
    /\ <>(pc = "done" /\ log[Len(log)].ev = "stop")

\* the silence call has been made, at the time all pairs take
C23_Witness ==
    /\ pc = "done"
    /\ pair = numPairs
    /\ now = PairStart(numPairs)
    /\ rowFinished


\* --------------------------------------------------------------------- C24

\* C24: the sync and porch busy-wait loops, which compare the unsigned
\* 32-bit difference micros() - start with the duration, wait the full
\* duration and then terminate for every start, also when the 32-bit clock
\* wraps around 2^32 during the wait: the loop goes on exactly while less
\* than the duration has passed, and it is left no later than one read of
\* the clock after the duration.
C24_WaitsFullDurationAcrossWrap ==
    LET duration == WaitDuration(probe.fn)
        elapsed == probe.fa
        waiting == pc \in {"syncWait", "porchWait"}
    IN  /\ elapsed < duration + MaxStep
        /\ waiting => (Less32(Sub32(now, start), WaitDuration(pc)) <=> elapsed < duration)
        /\ ~waiting => elapsed >= duration

\* a sync wait that began before the wrap and was left after it
C24_Witness ==
    /\ pc = "porch"
    /\ probe.fn = "syncWait"
    /\ start = << Half - 1, Half - syncPulseDuration + 1 >>
    /\ now[1] = 0
    /\ probe.fa >= syncPulseDuration


\* --------------------------------------------------------------------- C25

\* C25: on every path through takeAndTransmitImageViaSSTV the temporary
\* rgb565_buffer is freed at most once and never read after it was freed:
\* the copy loop, the only reader, has run only on a buffer that is still
\* allocated when the loop is over, and free is never called on it twice.
C25_TempBufferFreedOnce ==
    /\ rgb565_buffer # "freed twice"
    /\ pc = "release" => rgb565_buffer = "valid"


\* --------------------------------------------------------------------- C26

\* a write to the tone peripheral or the silence call happens in this step
WritesTone == log' # log /\ log'[Len(log')].ev \in WriteEvents

\* C26: in takeAndTransmitImageViaSSTV PTT is HIGH at every tone write of
\* the header and of the image, it is set LOW only after the tone generator
\* has been silenced, it is LOW when the function returns, and on the
\* early-return path (rgb565_buffer allocation failed) it is never set
\* HIGH and nothing is transmitted.
C26_PttBracketsTransmission ==
    /\ [](pc = "returned" => ptt = "LOW")
    /\ [](rgb565_buffer = "null" => (ptt = "LOW" /\ log = << >> /\ pc = "returned"))
    /\ [][ /\ WritesTone => (ptt = "HIGH" /\ ptt' = "HIGH")
           /\ (ptt = "HIGH" /\ ptt' = "LOW") =>
                 (log # << >> /\ log[Len(log)].ev = "stop" /\ ~timerRunning)
           /\ (ptt = "LOW" /\ ptt' = "HIGH") => log = << >> ]_vars

\* the function has returned after a whole transmission of a camera frame
C26_Witness ==
    /\ pc = "returned"
    /\ ptt = "LOW"
    /\ fb = "returned"
    /\ targetBuffer = "freed"
    /\ log # << >>
    /\ log[Len(log)].ev = "stop"

====
